---- MODULE Spec2Model ----
(***************************************************************************)
(* A model of the Task Switcher application (src/main.py): the schedule    *)
(* resolver (parse_blocks, _blocks_for_week), the active-block lookup      *)
(* (_time_in_range, _tick_ui), the notification scheduler                  *)
(* (schedule_notifications over an APScheduler job store) and the reload   *)
(* coordination between the tray, poller and scheduler threads.            *)
(*                                                                         *)
(* Conventions                                                             *)
(*  - A Python str that the code parses is a sequence of one-character     *)
(*    strings ("08:30" is <<"0","8",":","3","0">>); other strings (labels, *)
(*    colours, keys) are TLA+ strings.  The string "None" stands for a     *)
(*    missing key / Python None.                                           *)
(*  - A datetime.time is seconds since midnight; a date is a day number   *)
(*    (day 0 is a Monday); an aware datetime is seconds since 00:00 of     *)
(*    day 0 in the application's zone (no DST shift inside the modelled    *)
(*    days).  Sub-second parts of the clock are not modelled.              *)
(***************************************************************************)
EXTENDS Integers, Sequences, FiniteSets, TLC

VARIABLES
    doc,            \* content of schedule.json as json.loads sees it
    mtime,          \* st_mtime of schedule.json
    now,            \* wall clock, seconds since 00:00 of day 0
    show_notifications,   \* self.config.show_notifications
    lead,           \* self.config.notify_seconds_before
    blocks,         \* self.blocks
    paused,         \* self.paused
    active_color,   \* self.active_color
    jobs,           \* pending jobs of self.scheduler
    last_schedule_mtime,  \* self.last_schedule_mtime
    reload_lock,    \* owner of self.reload_lock, or "free"
    pc,             \* per thread: position in its current handler
    loc,            \* per thread: locals of the handler it runs
    passes,         \* number of seeding passes started so far
    hist,           \* observations of the last completed operation
    week            \* last result of _blocks_for_week (the drawn week view)

vars == <<doc, mtime, now, show_notifications, lead, blocks, paused,
          active_color, jobs, last_schedule_mtime, reload_lock, pc, loc,
          passes, hist, week>>

(***************************************************************************)
(* Program constants                                                       *)
(***************************************************************************)
DEFAULT_COLOR == "#3b82f6"

CatNames == {"focus", "admin", "break", "collab", "off"}

CAT_COLORS ==
    [c \in CatNames |->
        CASE c = "focus"  -> "#3b82f6"
          [] c = "admin"  -> "#22c55e"
          [] c = "break"  -> "#06b6d4"
          [] c = "collab" -> "#f59e0b"
          [] c = "off"    -> "#64748b"]

None == "None"

DaySecs == 86400

\* the literal "23:59" that closes the last block of a day
EndOfDay == <<"2", "3", ":", "5", "9">>

(***************************************************************************)
(* str.split, int(), "in", str.lower                                       *)
(***************************************************************************)
Digits == <<"0", "1", "2", "3", "4", "5", "6", "7", "8", "9">>

IsDigit(c) == \E i \in 1..10 : Digits[i] = c

DigitVal(c) == (CHOOSE i \in 1..10 : Digits[i] = c) - 1

\* sep in s
Contains(s, sep) == \E i \in 1..Len(s) : s[i] = sep

RECURSIVE Split(_, _)
\* s.split(sep) for a one-character separator
Split(s, sep) ==
    IF ~Contains(s, sep) THEN <<s>>
    ELSE LET i == CHOOSE k \in 1..Len(s) :
                    s[k] = sep /\ \A j \in 1..(k - 1) : s[j] # sep
         IN  <<SubSeq(s, 1, i - 1)>> \o Split(SubSeq(s, i + 1, Len(s)), sep)

\* int(x) succeeds (the modelled alphabet has no sign, blank or underscore)
IntOk(x) == Len(x) > 0 /\ \A i \in 1..Len(x) : IsDigit(x[i])

RECURSIVE ParseInt(_)
\* int(x) for a decimal digit string
ParseInt(x) ==
    IF Len(x) = 0 THEN 0
    ELSE 10 * ParseInt(SubSeq(x, 1, Len(x) - 1)) + DigitVal(x[Len(x)])

\* "hh, mm = [int(x) for x in s.split(':')]" raises no ValueError
HmOk(s) ==
    LET p == Split(s, ":")
    IN  Len(p) = 2 /\ IntOk(p[1]) /\ IntOk(p[2])

Hour(s)   == ParseInt(Split(s, ":")[1])
Minute(s) == ParseInt(Split(s, ":")[2])

\* _hm_key(s): minutes since midnight
HmKey(s) == Hour(s) * 60 + Minute(s)

\* ReplaceOk with every hour and minute accepted
ReplaceOk_AnyValue(s) == TRUE

\* base.replace(hour=h, minute=m, ...) raises no ValueError
ReplaceOk(s) == Hour(s) \in 0..23 /\ Minute(s) \in 0..59

\* base.replace(hour=h, minute=m, second=0, microsecond=0).time()
TimeOf(s) == Hour(s) * 3600 + Minute(s) * 60

\* k.lower() on the schedule keys the model uses
Lower(k) ==
    CASE k = "Monday"  -> "monday"
      [] k = "Weekend" -> "weekend"
      [] OTHER         -> k

\* d.strftime("%A").lower()
DayNames == <<"monday", "tuesday", "wednesday", "thursday", "friday",
              "saturday", "sunday">>

\* d.weekday(): 0 is Monday
Weekday(d) == d % 7

WkdayName(d) == DayNames[Weekday(d) + 1]

\* truthiness of an optional string
Truthy(x) == x # None /\ x # ""

(***************************************************************************)
(* list.sort(key=...): stable, ascending.  The list is given as a sequence *)
(* of records [key, val]; the result is the sorted sequence of records.    *)
(***************************************************************************)
RECURSIVE InsertByKey(_, _)
\* insert x behind every element whose key is not larger
InsertByKey(s, x) ==
    IF s = <<>> THEN <<x>>
    ELSE IF x.key < Head(s).key THEN <<x>> \o s
    ELSE <<Head(s)>> \o InsertByKey(Tail(s), x)

RECURSIVE SortByKey(_)
SortByKey(s) ==
    IF s = <<>> THEN <<>>
    ELSE InsertByKey(SortByKey(SubSeq(s, 1, Len(s) - 1)), s[Len(s)])

(***************************************************************************)
(* Schedule documents                                                      *)
(*   doc      [kind, active, schedKind, schedules]                         *)
(*     kind       "absent" (no file), "malformed" (json.loads raises),     *)
(*                "notobject" (top level is a list), "object"              *)
(*     active     root.get("active_schedule"), None when the key is absent *)
(*     schedKind  "dict", "missing" (no "schedules" key), "notdict"        *)
(*     schedules  the items of root["schedules"] in document order:        *)
(*                [key, islist, val]                                       *)
(*   entry    [isdict, tkind, time, label, category, color]                *)
(*     tkind      "str", "missing" (no "time" key), "nonstr" (a number)    *)
(***************************************************************************)
HasKey(schedules, k) == \E i \in 1..Len(schedules) : schedules[i].key = k

\* schedules[k] / schedules.get(k)
Lookup(schedules, k) ==
    schedules[CHOOSE i \in 1..Len(schedules) : schedules[i].key = k]

\* cur["label"] after e.get("label", "Untitled")
LabelOf(e) == IF e.label = None THEN "Untitled" ELSE e.label

(***************************************************************************)
(* App.parse_blocks                                                        *)
(***************************************************************************)
\* the per-entry validation of the normalisation loop raises no ValueError
PbEntryOk(e) ==
    /\ e.isdict
    /\ e.tkind = "str" /\ e.time # <<>> /\ Contains(e.time, ":")

\* norm.append({...})
PbNorm(e) ==
    [time |-> e.time, label |-> LabelOf(e), category |-> e.category,
     color |-> e.color]

\* PbSort with the entries left in file order
PbSort_FileOrder(norm) == norm

\* norm.sort(key=lambda x: _hm_key(x["time"]))
PbSort(norm) ==
    LET keyed  == [i \in 1..Len(norm) |->
                      [key |-> HmKey(norm[i].time), val |-> norm[i]]]
        sorted == SortByKey(keyed)
    IN  [i \in 1..Len(norm) |-> sorted[i].val]

\* PbEnd with the look-ahead to the next entry dropped
PbEnd_AlwaysEndOfDay(norm, i) == EndOfDay

\* end = nxt["time"] if nxt else "23:59"
PbEnd(norm, i) == IF i + 1 <= Len(norm) THEN norm[i + 1].time ELSE EndOfDay

\* PbColor with the category table consulted before the explicit colour
PbColor_CategoryFirst(cur) ==
    IF Truthy(cur.category) /\ cur.category \in DOMAIN CAT_COLORS
    THEN CAT_COLORS[cur.category]
    ELSE IF Truthy(cur.color) THEN cur.color ELSE DEFAULT_COLOR

\* choose color: explicit > category map > default
PbColor(cur) ==
    LET c0 == cur.color
        c1 == IF ~Truthy(c0) /\ Truthy(cur.category)
              THEN (IF cur.category \in DOMAIN CAT_COLORS
                    THEN CAT_COLORS[cur.category] ELSE None)
              ELSE c0
    IN  IF Truthy(c1) THEN c1 ELSE DEFAULT_COLOR

\* the expansion loop, then blocks.sort(key=lambda b: b["start_time"])
PbExpand(norm) ==
    LET raw == [i \in 1..Len(norm) |->
                  [title      |-> norm[i].label,
                   start      |-> norm[i].time,
                   end        |-> PbEnd(norm, i),
                   start_time |-> TimeOf(norm[i].time),
                   end_time   |-> TimeOf(PbEnd(norm, i)),
                   color      |-> PbColor(norm[i])]]
        keyed  == [i \in 1..Len(raw) |->
                      [key |-> raw[i].start_time, val |-> raw[i]]]
        sorted == SortByKey(keyed)
    IN  [i \in 1..Len(raw) |-> sorted[i].val]

\* the entries parse_blocks works on: schedules.get(active_name)
PbEntries(d) == Lookup(d.schedules, d.active).val

\* no statement of the try block raises
PbOk(d) ==
    /\ d.kind = "object"
    /\ Truthy(d.active) /\ d.schedKind = "dict"
    /\ HasKey(d.schedules, d.active)
    /\ Lookup(d.schedules, d.active).islist
    /\ LET entries == PbEntries(d)
       IN  /\ entries # <<>>
           /\ \A i \in 1..Len(entries) :
                 /\ PbEntryOk(entries[i])
                 /\ HmOk(entries[i].time)
                 /\ ReplaceOk(entries[i].time)

\* parse_blocks(): the blocks, or [] from either except clause
ParseBlocks(d) ==
    IF PbOk(d)
    THEN LET entries == PbEntries(d)
         IN  PbExpand(PbSort([i \in 1..Len(entries) |-> PbNorm(entries[i])]))
    ELSE <<>>

(***************************************************************************)
(* App._blocks_for_week                                                    *)
(***************************************************************************)
\* the document used when reading or decoding the file raises
DefaultData ==
    [kind |-> "object", active |-> "weekday", schedKind |-> "dict",
     schedules |-> <<[key |-> "weekday", islist |-> TRUE, val |-> <<>>]>>]

\* data after the try/except around json.loads
WkData(d) == IF d.kind \in {"absent", "malformed"} THEN DefaultData ELSE d

\* schedules = data.get("schedules", {})
WkSchedules(data) ==
    IF data.schedKind = "missing" THEN <<>> ELSE data.schedules

\* lk in norm_keys
InNormKeys(schedules, lk) ==
    \E i \in 1..Len(schedules) : Lower(schedules[i].key) = lk

\* norm_keys[lk]: a later key overwrites an earlier one with the same lower()
NormKey(schedules, lk) ==
    LET i == CHOOSE k \in 1..Len(schedules) :
                /\ Lower(schedules[k].key) = lk
                /\ \A j \in (k + 1)..Len(schedules) : Lower(schedules[j].key) # lk
    IN  schedules[i].key

EmptyList == [key |-> None, islist |-> TRUE, val |-> <<>>]

\* entries_for_date with the weekend/weekday bucket tried before the day name
entries_for_date_BucketFirst(data, d) ==
    LET schedules == WkSchedules(data)
        wkday     == WkdayName(d)
    IN  IF Weekday(d) >= 5 /\ InNormKeys(schedules, "weekend")
        THEN Lookup(schedules, NormKey(schedules, "weekend"))
        ELSE IF Weekday(d) < 5 /\ InNormKeys(schedules, "weekday")
        THEN Lookup(schedules, NormKey(schedules, "weekday"))
        ELSE IF InNormKeys(schedules, wkday)
        THEN Lookup(schedules, NormKey(schedules, wkday))
        ELSE IF data.active # None /\ HasKey(schedules, data.active)
        THEN Lookup(schedules, data.active)
        ELSE EmptyList

\* entries_for_date(d): the selected item of schedules, or the empty list
entries_for_date(data, d) ==
    LET schedules == WkSchedules(data)
        wkday     == WkdayName(d)
    IN  IF InNormKeys(schedules, wkday)
        THEN Lookup(schedules, NormKey(schedules, wkday))
        ELSE IF Weekday(d) >= 5 /\ InNormKeys(schedules, "weekend")
        THEN Lookup(schedules, NormKey(schedules, "weekend"))
        ELSE IF Weekday(d) < 5 /\ InNormKeys(schedules, "weekday")
        THEN Lookup(schedules, NormKey(schedules, "weekday"))
        ELSE IF data.active # None /\ HasKey(schedules, data.active)
        THEN Lookup(schedules, data.active)
        ELSE EmptyList

\* the filter of the items loop keeps the entry
WkKeep(e) == e.tkind = "str" /\ Contains(e.time, ":")

\* items.append({...})
WkItem(e) ==
    [time |-> e.time, label |-> LabelOf(e), category |-> e.category,
     color |-> e.color]

\* items after the loop over raw_entries
WkItems(raw) == SelectSeq([i \in 1..Len(raw) |-> raw[i]], WkKeep)

\* items.sort(key=lambda x: _hm_key(x["time"]))
WkSort(items) ==
    LET keyed  == [i \in 1..Len(items) |->
                      [key |-> HmKey(items[i].time), val |-> items[i]]]
        sorted == SortByKey(keyed)
    IN  [i \in 1..Len(items) |-> sorted[i].val]

\* nxt = items[i + 1]["time"] if i + 1 < len(items) else "23:59"
WkEnd(items, i) == IF i + 1 <= Len(items) THEN items[i + 1].time ELSE EndOfDay

\* c = cur.get("color"); category lookup; "or DEFAULT_COLOR"
WkColor(cur) ==
    LET c0 == cur.color
        c1 == IF ~Truthy(c0) /\ Truthy(cur.category)
              THEN (IF cur.category \in DOMAIN CAT_COLORS
                    THEN CAT_COLORS[cur.category] ELSE None)
              ELSE c0
    IN  IF Truthy(c1) THEN c1 ELSE DEFAULT_COLOR

\* the expansion loop for day d
WkExpand(items, d, today) ==
    [i \in 1..Len(items) |->
        [title      |-> items[i].label,
         start      |-> items[i].time,
         end        |-> WkEnd(items, i),
         start_time |-> TimeOf(items[i].time),
         end_time   |-> TimeOf(WkEnd(items, i)),
         color      |-> WkColor(items[i]),
         is_today   |-> (d = today)]]

\* the body of "for d in days" raises nothing
WkDayOk(data, d) ==
    LET sel == entries_for_date(data, d)
    IN  /\ sel.islist
        /\ \A i \in 1..Len(sel.val) : sel.val[i].isdict
        /\ \A i \in 1..Len(sel.val) :
              WkKeep(sel.val[i]) =>
                  HmOk(sel.val[i].time) /\ ReplaceOk(sel.val[i].time)

\* the blocks appended to week_lists for day d
WkDayBlocks(data, d, today) ==
    LET raw   == entries_for_date(data, d).val
        kept  == WkItems(raw)
        items == WkSort([i \in 1..Len(kept) |-> WkItem(kept[i])])
    IN  WkExpand(items, d, today)

\* _blocks_for_week(days): [raised, lists]
BlocksForWeek(d, days, today) ==
    LET data == WkData(d)
    IN  IF \/ data.kind # "object"
           \/ data.schedKind = "notdict"
           \/ \E i \in 1..Len(days) : ~WkDayOk(data, days[i])
        THEN [raised |-> TRUE, lists |-> <<>>]
        ELSE [raised |-> FALSE,
              lists  |-> [i \in 1..Len(days) |-> WkDayBlocks(data, days[i], today)]]

\* the Monday-start week of today that draw_window asks for
WeekDays(today) ==
    LET start_of_week == today - Weekday(today)
    IN  [i \in 1..7 |-> start_of_week + (i - 1)]

(***************************************************************************)
(* Active-block lookup: App._time_in_range and the loop of App._tick_ui    *)
(***************************************************************************)
\* _time_in_range with the end included and the wrap test conjoined
TimeInRange_Closed(start_t, end_t, now_t) ==
    IF start_t <= end_t
    THEN start_t <= now_t /\ now_t <= end_t
    ELSE now_t >= start_t \/ now_t <= end_t

\* _time_in_range(start_t, end_t, now_t)
TimeInRange(start_t, end_t, now_t) ==
    IF start_t <= end_t
    THEN start_t <= now_t /\ now_t < end_t
    ELSE now_t >= start_t \/ now_t < end_t

\* index of the block the for loop breaks on, 0 when it runs into its else
ActiveIndex(bs, now_t) ==
    IF \E i \in 1..Len(bs) : TimeInRange(bs[i].start_time, bs[i].end_time, now_t)
    THEN CHOOSE i \in 1..Len(bs) :
            /\ TimeInRange(bs[i].start_time, bs[i].end_time, now_t)
            /\ \A j \in 1..(i - 1) :
                  ~TimeInRange(bs[j].start_time, bs[j].end_time, now_t)
    ELSE 0

\* self.active_color after the loop
ActiveColor(bs, now_t) ==
    LET i == ActiveIndex(bs, now_t)
    IN  IF i = 0 THEN DEFAULT_COLOR
        ELSE IF Truthy(bs[i].color) THEN bs[i].color ELSE DEFAULT_COLOR

\* now.date() and now.time() of the aware datetime
DateOf(t)    == t \div DaySecs
TimeOfDay(t) == t % DaySecs

(***************************************************************************)
(* Notification scheduler: App.schedule_notifications over the job store   *)
(*   job  [id, run_at, func, block, pass]                                  *)
(*     func  "notify" (self._notify_block) or "reseed"                     *)
(*           (self.schedule_notifications)                                 *)
(*     pass  the operation that registered the job (history, not read by   *)
(*           the program)                                                  *)
(***************************************************************************)
\* _mk_dt(date_, hhmm)
MkDt(date_, hhmm) == date_ * DaySecs + Hour(hhmm) * 3600 + Minute(hhmm) * 60

\* DtNext with a start that equals now counted as passed
DtNext_Strict(b, now_) ==
    LET today    == DateOf(now_)
        dt_today == MkDt(today, b.start)
    IN  IF dt_today > now_ THEN dt_today ELSE MkDt(today + 1, b.start)

\* dt_next = dt_today if dt_today >= now else _mk_dt(tomorrow, b["start"])
DtNext(b, now_) ==
    LET today    == DateOf(now_)
        dt_today == MkDt(today, b.start)
    IN  IF dt_today >= now_ THEN dt_today ELSE MkDt(today + 1, b.start)

\* RunAt without "if run_at < now: run_at = now"
RunAt_NoClamp(b, now_, lead_) ==
    DtNext(b, now_) - lead_

\* run_at after the lead is applied and the clamp
RunAt(b, now_, lead_) ==
    LET run_at == DtNext(b, now_) - lead_
    IN  IF run_at < now_ THEN now_ ELSE run_at

\* id=f"block:{b['title']}:{run_at.isoformat()}"
BlockJobId(b, run_at) == <<"block", b.title, run_at>>

\* BlockJob with the lead-adjusted time compared with now: an occurrence
\* whose fire time has passed is left out and tomorrow's is registered
BlockJob_SkipElapsed(b, now_, lead_, pass) ==
    LET today_fire == MkDt(DateOf(now_), b.start) - lead_
        run_at     == IF today_fire >= now_ THEN today_fire
                      ELSE MkDt(DateOf(now_) + 1, b.start) - lead_
    IN  [id     |-> BlockJobId(b, run_at),
         run_at |-> run_at,
         func   |-> "notify",
         block  |-> b,
         pass   |-> pass]

\* the job of one loop iteration
BlockJob(b, now_, lead_, pass) ==
    [id     |-> BlockJobId(b, RunAt(b, now_, lead_)),
     run_at |-> RunAt(b, now_, lead_),
     func   |-> "notify",
     block  |-> b,
     pass   |-> pass]

NoBlock ==
    [title |-> "", start |-> <<>>, end |-> <<>>, start_time |-> 0,
     end_time |-> 0, color |-> ""]

\* midnight_plus: tomorrow 00:05
MidnightPlus(now_) == (DateOf(now_) + 1) * DaySecs + 5 * 60

\* the daily re-seed job; add_job without id draws a fresh uuid4
ReseedJob(now_, pass) ==
    [id     |-> <<"uuid", "", pass>>,
     run_at |-> MidnightPlus(now_),
     func   |-> "reseed",
     block  |-> NoBlock,
     pass   |-> pass]

\* scheduler.add_job(...) raises ConflictingIdError
Conflicts(js, j) == \E k \in js : k.id = j.id

\* the job store after scheduler.add_job(...) returned
AddJob(js, j) == js \cup {j}

RECURSIVE SeedLoop(_, _, _, _, _, _)
\* "for b in self.blocks" from index i on: [raised, jobs]
SeedLoop(js, bs, i, now_, lead_, pass) ==
    IF i > Len(bs) THEN [raised |-> FALSE, jobs |-> js]
    ELSE IF Conflicts(js, BlockJob(bs[i], now_, lead_, pass))
    THEN [raised |-> TRUE, jobs |-> js]
    ELSE SeedLoop(AddJob(js, BlockJob(bs[i], now_, lead_, pass)),
                  bs, i + 1, now_, lead_, pass)

\* schedule_notifications() run without interruption: [raised, jobs]
SeedPass(bs, now_, lead_, show, pass) ==
    IF ~show THEN [raised |-> FALSE, jobs |-> {}]
    ELSE LET r == SeedLoop({}, bs, 1, now_, lead_, pass)
         IN  IF r.raised THEN r
             ELSE [raised |-> FALSE,
                   jobs   |-> AddJob(r.jobs, ReseedJob(now_, pass))]

(***************************************************************************)
(* Bounds and input pools                                                  *)
(***************************************************************************)
MaxEntries == 3        \* longest profile the resolver is run on

Threads == {"ui", "tray", "poller", "sched"}

T0830 == <<"0", "8", ":", "3", "0">>
T0900 == <<"0", "9", ":", "0", "0">>
T2200 == <<"2", "2", ":", "0", "0">>
T2500 == <<"2", "5", ":", "0", "0">>
Tabcd == <<"a", "b", ":", "c", "d">>
T0900NoColon == <<"0", "9", "0", "0">>

Entry(time, label, category, color) ==
    [isdict |-> TRUE, tkind |-> "str", time |-> time, label |-> label,
     category |-> category, color |-> color]

EStandup == Entry(T0830, "Standup", None, None)
EWind    == Entry(T2200, "Wind down", "off", None)
EDeep    == Entry(T0900, "Deep work", "admin", "#ff0000")
EBreak   == Entry(T0900, "Break", "break", "")
ELast    == Entry(EndOfDay, None, "misc", None)

ValidPool == {EStandup, EWind, EDeep, EBreak, ELast}

EBadHour == Entry(T2500, "Late", None, None)
EAbcd    == Entry(Tabcd, "Garbled", None, None)
ENoColon == Entry(T0900NoColon, "Plain", None, None)
ENoTime  == [isdict |-> TRUE, tkind |-> "missing", time |-> <<>>,
             label |-> "Untimed", category |-> None, color |-> None]
ENumTime == [isdict |-> TRUE, tkind |-> "nonstr", time |-> <<>>,
             label |-> "Numbered", category |-> None, color |-> None]
ENotDict == [isdict |-> FALSE, tkind |-> "missing", time |-> <<>>,
             label |-> None, category |-> None, color |-> None]

InvalidPool == {EBadHour, EAbcd, ENoColon, ENoTime, ENumTime, ENotDict}

SeqsUpTo(S, n) == UNION {[1..k -> S] : k \in 0..n}

\* the profiles the resolver is run on
EntryLists ==
    SeqsUpTo(ValidPool, MaxEntries)
      \cup UNION {{<<x>>, <<EStandup, x>>, <<x, EDeep>>} : x \in InvalidPool}

\* the list stored under a key that does not carry the profile under test
KeyList(k) == <<Entry(T0900, k, None, None)>>

\* a profile document: keys in document order, the profile under test at p
ProfileDoc(keys, p, active, entries) ==
    [kind |-> "object", active |-> active, schedKind |-> "dict",
     schedules |-> [i \in 1..Len(keys) |->
                      [key |-> keys[i], islist |-> TRUE,
                       val |-> IF i = p THEN entries ELSE KeyList(keys[i])]]]

Layouts ==
    { [keys |-> <<"weekday">>, p |-> 1, active |-> "weekday"],
      [keys |-> <<"weekday", "weekend">>, p |-> 2, active |-> "weekday"],
      [keys |-> <<"custom", "weekday">>, p |-> 1, active |-> "custom"],
      [keys |-> <<"custom">>, p |-> 1, active |-> "custom"],
      [keys |-> <<"custom", "weekend">>, p |-> 1, active |-> None],
      [keys |-> <<"Monday", "weekday", "custom">>, p |-> 1, active |-> "custom"],
      [keys |-> <<"saturday", "Weekend", "monday", "Monday">>, p |-> 4,
       active |-> "vacation"],
      [keys |-> <<"weekday", "Weekend", "custom">>, p |-> 3, active |-> "custom"] }

AbsentDoc    == [kind |-> "absent", active |-> None, schedKind |-> "missing",
                 schedules |-> <<>>]
MalformedDoc == [kind |-> "malformed", active |-> None, schedKind |-> "missing",
                 schedules |-> <<>>]
LegacyDoc    == [kind |-> "notobject", active |-> None, schedKind |-> "missing",
                 schedules |-> <<>>]
NoSchedDoc   == [kind |-> "object", active |-> "weekday", schedKind |-> "missing",
                 schedules |-> <<>>]
BadSchedDoc  == [kind |-> "object", active |-> "weekday", schedKind |-> "notdict",
                 schedules |-> <<>>]
NotListDoc   == [kind |-> "object", active |-> "weekday", schedKind |-> "dict",
                 schedules |-> <<[key |-> "weekday", islist |-> FALSE, val |-> <<>>]>>]

SpecialDocs ==
    {AbsentDoc, MalformedDoc, LegacyDoc, NoSchedDoc, BadSchedDoc, NotListDoc}

\* the documents the resolver is run on
ResolveDocs ==
    {ProfileDoc(l.keys, l.p, l.active, es) : l \in Layouts, es \in EntryLists}
      \cup SpecialDocs

\* locals of a handler: the operation it is, the pass number it registers
\* jobs under, where schedule_notifications returns to, and the now, the
\* iterated list and the loop index of schedule_notifications
LocInit ==
    [op |-> "none", now |-> 0, iter |-> <<>>, i |-> 0, pass |-> 0,
     ret |-> "idle", raised |-> FALSE]

\* what the last completed operation was and did: its name, its pass
\* number, whether its seeding left with ConflictingIdError, and the block
\* index the last tick matched; toast is the block of the toast that
\* operation put on screen (NoBlock: none); since is the instant from which
\* the clock has moved on under the pause in force (0: it has not); widget
\* is the thread that last touched a window widget
HistInit ==
    [op |-> "init", parsed |-> FALSE, active |-> 0, raised |-> FALSE,
     pass |-> 0, toast |-> NoBlock, since |-> 0, widget |-> "none"]

WeekInit == [done |-> FALSE, days |-> <<>>, raised |-> FALSE, lists |-> <<>>]

\* 10:00 on day 0, the instant the resolver runs are made at
ResolveNow == 36000

(***************************************************************************)
(* The resolver run on its own: SpecResolve                                *)
(***************************************************************************)
InitResolve ==
    /\ doc \in ResolveDocs
    /\ mtime = 1
    /\ now = ResolveNow
    /\ show_notifications = TRUE
    /\ lead = 0
    /\ blocks = <<>>
    /\ paused = FALSE
    /\ active_color = DEFAULT_COLOR
    /\ jobs = {}
    /\ last_schedule_mtime = 0
    /\ reload_lock = "free"
    /\ pc = [t \in Threads |-> "idle"]
    /\ loc = [t \in Threads |-> LocInit]
    /\ passes = 0
    /\ hist = HistInit
    /\ week = WeekInit

\* self.blocks = self.parse_blocks()
CallParseBlocks ==
    /\ ~hist.parsed
    /\ blocks' = ParseBlocks(doc)
    /\ hist' = [hist EXCEPT !.op = "parse_blocks", !.parsed = TRUE]
    /\ UNCHANGED <<doc, mtime, now, show_notifications, lead, paused,
                   active_color, jobs, last_schedule_mtime, reload_lock, pc,
                   loc, passes, week>>

\* the day lists _blocks_for_week is asked for: the current week, or one date
DayQueries == {WeekDays(DateOf(ResolveNow))} \cup {<<d>> : d \in 0..6}

\* week_blocks = self._blocks_for_week(days)
CallBlocksForWeek ==
    /\ hist.parsed /\ ~week.done
    /\ \E days \in DayQueries :
          LET r == BlocksForWeek(doc, days, DateOf(now))
          IN  week' = [done |-> TRUE, days |-> days, raised |-> r.raised,
                       lists |-> r.lists]
    /\ UNCHANGED <<doc, mtime, now, show_notifications, lead, blocks, paused,
                   active_color, jobs, last_schedule_mtime, reload_lock, pc,
                   loc, passes, hist>>

NextResolve == CallParseBlocks \/ CallBlocksForWeek

SpecResolve == InitResolve /\ [][NextResolve]_vars

(***************************************************************************)
(* App._tick_ui, and the lookup run on its own: SpecLookup                 *)
(***************************************************************************)
\* _tick_ui(): recompute the active colour, redraw, re-arm the timer.  An
\* exception of draw_window leaves the timer unarmed.
TickUI ==
    /\ pc["ui"] = "tick"
    /\ active_color' = ActiveColor(blocks, TimeOfDay(now))
    /\ LET r == BlocksForWeek(doc, WeekDays(DateOf(now)), DateOf(now))
       IN  /\ week' = [done |-> TRUE, days |-> WeekDays(DateOf(now)),
                       raised |-> r.raised, lists |-> r.lists]
           /\ pc' = [pc EXCEPT !["ui"] = IF r.raised THEN "dead" ELSE "tick"]
    /\ hist' = [hist EXCEPT !.op = "tick",
                            !.active = ActiveIndex(blocks, TimeOfDay(now))]
    /\ UNCHANGED <<doc, mtime, now, show_notifications, lead, blocks, paused,
                   jobs, last_schedule_mtime, reload_lock, loc, passes>>

MaxLookupBlocks == 2   \* longest block list the lookup is run on

T0000 == <<"0", "0", ":", "0", "0">>
T0100 == <<"0", "1", ":", "0", "0">>
T2300 == <<"2", "3", ":", "0", "0">>

Blk(title, start, end, color) ==
    [title |-> title, start |-> start, end |-> end,
     start_time |-> TimeOf(start), end_time |-> TimeOf(end), color |-> color]

\* block lists handed to the lookup, wrap-around blocks included
LookupPool ==
    { Blk("Standup", T0830, T0900, "#22c55e"),
      Blk("Focus", T0900, EndOfDay, "#f59e0b"),
      Blk("Night", T2200, T0100, "#64748b"),
      Blk("Late", T2300, T0000, "#06b6d4"),
      Blk("Empty", T0900, T0900, "#ff0000"),
      Blk("Plain", T0830, T2200, None) }

\* times of day the lookup is asked about: starts, ends and their neighbours
LookupInstants ==
    {0, 3599, 3600, 30600, 31500, 32399, 32400, 79200, 82800, 86340, 86399}

WeekdayDoc == ProfileDoc(<<"weekday">>, 1, "weekday", <<EStandup, EDeep>>)

InitLookup ==
    /\ doc = WeekdayDoc
    /\ mtime = 1
    /\ now \in LookupInstants
    /\ show_notifications = TRUE
    /\ lead = 0
    /\ blocks \in SeqsUpTo(LookupPool, MaxLookupBlocks)
    /\ paused = FALSE
    /\ active_color = DEFAULT_COLOR
    /\ jobs = {}
    /\ last_schedule_mtime = 0
    /\ reload_lock = "free"
    /\ pc = [t \in Threads |-> IF t = "ui" THEN "tick" ELSE "idle"]
    /\ loc = [t \in Threads |-> LocInit]
    /\ passes = 0
    /\ hist = HistInit
    /\ week = WeekInit

NextLookup == TickUI

SpecLookup == InitLookup /\ [][NextLookup]_vars

(***************************************************************************)
(* One seeding pass run on its own: SpecSeed                               *)
(***************************************************************************)
T0010 == <<"0", "0", ":", "1", "0">>
T0930 == <<"0", "9", ":", "3", "0">>

ENap    == Entry(T0010, "Nap", "off", None)
EBreak2 == Entry(T0930, "Break", "break", None)

\* the schedules the seeding pass is run on
SeedDocs ==
    { WeekdayDoc,
      ProfileDoc(<<"weekday">>, 1, "weekday", <<EWind>>),
      ProfileDoc(<<"weekday">>, 1, "weekday", <<ENap, EBreak, EBreak2>>),
      ProfileDoc(<<"weekday">>, 1, "weekday", <<EDeep, EDeep>>) }

\* the instants the pass is run at: 00:05, 08:45, 09:00, 09:00:30 and 23:30
\* of day 0, and 08:45 of day 1
SeedNows == {300, 31500, 32400, 32430, 84600, 117900}

\* lead times in seconds: none, 15 minutes, one hour, 25 hours
SeedLeads == {0, 900, 3600, 90000}

InitSeed ==
    /\ doc \in SeedDocs
    /\ mtime = 1
    /\ now \in SeedNows
    /\ show_notifications \in BOOLEAN
    /\ lead \in SeedLeads
    /\ blocks = ParseBlocks(doc)
    /\ paused = FALSE
    /\ active_color = DEFAULT_COLOR
    /\ jobs = {}
    /\ last_schedule_mtime = 0
    /\ reload_lock = "free"
    /\ pc = [t \in Threads |-> "idle"]
    /\ loc = [t \in Threads |-> LocInit]
    /\ passes = 0
    /\ hist = [HistInit EXCEPT !.parsed = TRUE]
    /\ week = WeekInit

\* self.schedule_notifications(), run from start to end
CallScheduleNotifications ==
    /\ hist.op = "init"
    /\ LET r == SeedPass(blocks, now, lead, show_notifications, passes + 1)
       IN  /\ jobs' = r.jobs
           /\ hist' = [hist EXCEPT !.op = "seed", !.raised = r.raised]
    /\ passes' = passes + 1
    /\ UNCHANGED <<doc, mtime, now, show_notifications, lead, blocks, paused,
                   active_color, last_schedule_mtime, reload_lock, pc, loc,
                   week>>

NextSeed == CallScheduleNotifications

SpecSeed == InitSeed /\ [][NextSeed]_vars

(***************************************************************************)
(* The running application.  Threads: "ui" (Tk main loop: run(), then the  *)
(* tick), "tray" (pystray menu handlers), "poller" (watch_files) and       *)
(* "sched" (an APScheduler worker running due jobs).  A handler is a       *)
(* sequence of steps; pc[t] is the step thread t is at:                    *)
(*   fr_lock, fr_parse, fr_paused, fr_unlock   force_reload                *)
(*   tp_remove                                 toggle_pause, pausing       *)
(*   sn_remove, sn_begin, sn_add               schedule_notifications      *)
(* SpecConc interleaves the steps of all threads; SpecSeq runs every       *)
(* handler to its end before another thread or the environment moves.      *)
(***************************************************************************)
MaxPasses == 3         \* calls that add jobs (run, reload, resume, re-seed, snooze)
MaxMtime == 2          \* modification times the schedule file takes

\* 08:45 of day 0, when the application starts
AppStart == 8 * 3600 + 45 * 60

\* instants the clock stops at besides the fire times of pending jobs:
\* 00:05 of day 1
ClockPoints == {86700}

BreaksDoc == ProfileDoc(<<"weekday">>, 1, "weekday", <<EBreak, EBreak2>>)

\* contents the schedule file takes
AppDocs == {WeekdayDoc, BreaksDoc}

\* notify_seconds_before settings: one hour
AppLeads == {3600}

Resting == {"idle", "tick", "boot", "dead", "off"}

Busy(t) == pc[t] \notin Resting

\* the state after App.__init__
InitApp ==
    /\ doc \in AppDocs
    /\ mtime = 1
    /\ now = AppStart
    /\ show_notifications \in BOOLEAN
    /\ lead \in AppLeads
    /\ blocks = <<>>
    /\ paused = FALSE
    /\ active_color = DEFAULT_COLOR
    /\ jobs = {}
    /\ last_schedule_mtime = 0
    /\ reload_lock = "free"
    /\ pc = [t \in Threads |->
               CASE t = "ui" -> "boot" [] t = "sched" -> "idle" [] OTHER -> "off"]
    /\ loc = [t \in Threads |-> LocInit]
    /\ passes = 0
    /\ hist = HistInit
    /\ week = WeekInit

\* run(): initial load and seeding, then the tray icon and the watcher start.
\* An exception of the seeding leaves run() before either is started.
Boot ==
    /\ pc["ui"] = "boot"
    /\ blocks' = ParseBlocks(doc)
    /\ LET r == SeedPass(blocks', now, lead, show_notifications, passes + 1)
       IN  /\ jobs' = r.jobs
           /\ hist' = [hist EXCEPT !.op = "boot", !.parsed = TRUE,
                                   !.raised = r.raised, !.pass = passes + 1]
           /\ pc' = IF r.raised
                    THEN [pc EXCEPT !["ui"] = "dead"]
                    ELSE [pc EXCEPT !["ui"] = "tick", !["tray"] = "idle",
                                    !["poller"] = "idle"]
    /\ passes' = passes + 1
    /\ UNCHANGED <<doc, mtime, now, show_notifications, lead, paused,
                   active_color, last_schedule_mtime, reload_lock, loc, week>>

\* the handler of thread t starts as operation op
Enter(t, op, at, ret) ==
    /\ passes < MaxPasses
    /\ passes' = passes + 1
    /\ loc' = [loc EXCEPT ![t] = [LocInit EXCEPT !.op = op, !.pass = passes + 1,
                                                 !.ret = ret]]
    /\ pc' = [pc EXCEPT ![t] = at]

\* thread t leaves schedule_notifications, normally or by an exception
Leave(t, raised) ==
    /\ pc' = [pc EXCEPT ![t] = loc[t].ret]
    /\ loc' = [loc EXCEPT ![t].raised = raised]
    /\ hist' = IF loc[t].ret = "idle"
               THEN [hist EXCEPT !.op = loc[t].op, !.raised = raised,
                                 !.pass = loc[t].pass, !.toast = NoBlock,
                                 !.since = 0]
               ELSE hist

\* toggle_pause(): flip the flag; resuming goes on to seed, pausing to clear
TogglePause ==
    /\ pc["tray"] = "idle"
    /\ paused' = ~paused
    /\ IF paused
       THEN Enter("tray", "resume", "sn_remove", "idle")
       ELSE /\ pc' = [pc EXCEPT !["tray"] = "tp_remove"]
            /\ loc' = [loc EXCEPT !["tray"] = [LocInit EXCEPT !.op = "pause"]]
            /\ UNCHANGED passes
    /\ UNCHANGED <<doc, mtime, now, show_notifications, lead, blocks,
                   active_color, jobs, last_schedule_mtime, reload_lock, hist,
                   week>>

\* toggle_pause(), pausing: self.scheduler.remove_all_jobs()
PauseRemoveAll ==
    /\ pc["tray"] = "tp_remove"
    /\ jobs' = {}
    /\ pc' = [pc EXCEPT !["tray"] = "idle"]
    /\ hist' = [hist EXCEPT !.op = "pause", !.raised = FALSE, !.pass = 0,
                            !.toast = NoBlock]
    /\ UNCHANGED <<doc, mtime, now, show_notifications, lead, blocks, paused,
                   active_color, last_schedule_mtime, reload_lock, loc, passes,
                   week>>

\* the tray menu item "Reload schedule" calls force_reload
ManualReload ==
    /\ pc["tray"] = "idle"
    /\ Enter("tray", "reload", "fr_lock", "fr_unlock")
    /\ UNCHANGED <<doc, mtime, now, show_notifications, lead, blocks, paused,
                   active_color, jobs, last_schedule_mtime, reload_lock, hist,
                   week>>

\* watch_files(), one round that sees a new mtime: remember it and call
\* force_reload.  A round that finds no file or the remembered mtime changes
\* nothing and sleeps.
PollChanged ==
    /\ pc["poller"] = "idle"
    /\ doc.kind # "absent"
    /\ mtime # last_schedule_mtime
    /\ last_schedule_mtime' = mtime
    /\ Enter("poller", "reload", "fr_lock", "fr_unlock")
    /\ UNCHANGED <<doc, mtime, now, show_notifications, lead, blocks, paused,
                   active_color, jobs, reload_lock, hist, week>>

\* AcquireLock without waiting for the owner
AcquireLock_NoWait(t) ==
    /\ pc[t] = "fr_lock"
    /\ reload_lock' = t
    /\ pc' = [pc EXCEPT ![t] = "fr_parse"]
    /\ UNCHANGED <<doc, mtime, now, show_notifications, lead, blocks, paused,
                   active_color, jobs, last_schedule_mtime, loc, passes, hist,
                   week>>

\* force_reload: "with self.reload_lock:" entered
AcquireLock(t) ==
    /\ pc[t] = "fr_lock"
    /\ reload_lock = "free"
    /\ reload_lock' = t
    /\ pc' = [pc EXCEPT ![t] = "fr_parse"]
    /\ UNCHANGED <<doc, mtime, now, show_notifications, lead, blocks, paused,
                   active_color, jobs, last_schedule_mtime, loc, passes, hist,
                   week>>

\* force_reload: self.blocks = self.parse_blocks()
ReloadParse(t) ==
    /\ pc[t] = "fr_parse"
    /\ blocks' = ParseBlocks(doc)
    /\ pc' = [pc EXCEPT ![t] = "fr_paused"]
    /\ UNCHANGED <<doc, mtime, now, show_notifications, lead, paused,
                   active_color, jobs, last_schedule_mtime, reload_lock, loc,
                   passes, hist, week>>

\* ReloadCheckPaused seeding whether paused or not
ReloadCheckPaused_Always(t) ==
    /\ pc[t] = "fr_paused"
    /\ pc' = [pc EXCEPT ![t] = "sn_remove"]
    /\ UNCHANGED <<doc, mtime, now, show_notifications, lead, blocks, paused,
                   active_color, jobs, last_schedule_mtime, reload_lock, loc,
                   passes, hist, week>>

\* force_reload: if not self.paused: self.schedule_notifications()
ReloadCheckPaused(t) ==
    /\ pc[t] = "fr_paused"
    /\ pc' = [pc EXCEPT ![t] = IF paused THEN "fr_unlock" ELSE "sn_remove"]
    /\ UNCHANGED <<doc, mtime, now, show_notifications, lead, blocks, paused,
                   active_color, jobs, last_schedule_mtime, reload_lock, loc,
                   passes, hist, week>>

\* force_reload: the with block is left, normally or by an exception
ReleaseLock(t) ==
    /\ pc[t] = "fr_unlock"
    /\ reload_lock' = "free"
    /\ pc' = [pc EXCEPT ![t] = "idle"]
    /\ hist' = [hist EXCEPT !.op = "reload", !.raised = loc[t].raised,
                            !.pass = loc[t].pass, !.toast = NoBlock]
    /\ UNCHANGED <<doc, mtime, now, show_notifications, lead, blocks, paused,
                   active_color, jobs, last_schedule_mtime, loc, passes, week>>

\* SnRemoveAll going on to seed with the master switch off as well
SnRemoveAll_IgnoreSwitch(t) ==
    /\ pc[t] = "sn_remove"
    /\ jobs' = {}
    /\ pc' = [pc EXCEPT ![t] = "sn_begin"]
    /\ UNCHANGED <<doc, mtime, now, show_notifications, lead, blocks, paused,
                   active_color, last_schedule_mtime, reload_lock, passes, week,
                   loc, hist>>

\* schedule_notifications: remove_all_jobs(), in either branch of the master
\* switch; with notifications off the function returns
SnRemoveAll(t) ==
    /\ pc[t] = "sn_remove"
    /\ jobs' = {}
    /\ IF show_notifications
       THEN /\ pc' = [pc EXCEPT ![t] = "sn_begin"]
            /\ UNCHANGED <<loc, hist>>
       ELSE Leave(t, FALSE)
    /\ UNCHANGED <<doc, mtime, now, show_notifications, lead, blocks, paused,
                   active_color, last_schedule_mtime, reload_lock, passes, week>>

\* schedule_notifications: now, today, tomorrow and lead are taken and the
\* loop starts to iterate the list self.blocks is bound to
SnBegin(t) ==
    /\ pc[t] = "sn_begin"
    /\ loc' = [loc EXCEPT ![t].now = now, ![t].iter = blocks, ![t].i = 1]
    /\ pc' = [pc EXCEPT ![t] = "sn_add"]
    /\ UNCHANGED <<doc, mtime, now, show_notifications, lead, blocks, paused,
                   active_color, jobs, last_schedule_mtime, reload_lock, passes,
                   hist, week>>

\* schedule_notifications: one iteration of the loop; ConflictingIdError
\* leaves the function
SnAddBlockJob(t) ==
    /\ pc[t] = "sn_add"
    /\ loc[t].i <= Len(loc[t].iter)
    /\ LET j == BlockJob(loc[t].iter[loc[t].i], loc[t].now, lead, loc[t].pass)
       IN  IF Conflicts(jobs, j)
           THEN /\ Leave(t, TRUE)
                /\ UNCHANGED jobs
           ELSE /\ jobs' = AddJob(jobs, j)
                /\ loc' = [loc EXCEPT ![t].i = loc[t].i + 1]
                /\ UNCHANGED <<pc, hist>>
    /\ UNCHANGED <<doc, mtime, now, show_notifications, lead, blocks, paused,
                   active_color, last_schedule_mtime, reload_lock, passes, week>>

\* schedule_notifications: after the loop, the daily re-seed job
SnAddReseedJob(t) ==
    /\ pc[t] = "sn_add"
    /\ loc[t].i > Len(loc[t].iter)
    /\ jobs' = AddJob(jobs, ReseedJob(loc[t].now, loc[t].pass))
    /\ Leave(t, FALSE)
    /\ UNCHANGED <<doc, mtime, now, show_notifications, lead, blocks, paused,
                   active_color, last_schedule_mtime, reload_lock, passes, week>>

\* a due block or snooze job runs _notify_block on the worker: a toast is
\* handed to the Tk loop unless the application is paused
FireNotify ==
    /\ pc["sched"] = "idle"
    /\ \E j \in jobs :
          /\ j.func = "notify" /\ j.run_at <= now
          /\ jobs' = jobs \ {j}
          /\ hist' = [hist EXCEPT !.op = IF paused THEN "muted" ELSE "toast",
                                  !.raised = FALSE, !.pass = j.pass,
                                  !.toast = IF paused THEN NoBlock ELSE j.block]
    /\ UNCHANGED <<doc, mtime, now, show_notifications, lead, blocks, paused,
                   active_color, last_schedule_mtime, reload_lock, pc, loc,
                   passes, week>>

\* the due re-seed job runs schedule_notifications on the worker
FireReseed ==
    /\ pc["sched"] = "idle"
    /\ \E j \in jobs :
          /\ j.func = "reseed" /\ j.run_at <= now
          /\ jobs' = jobs \ {j}
    /\ Enter("sched", "reseed", "sn_remove", "idle")
    /\ UNCHANGED <<doc, mtime, now, show_notifications, lead, blocks, paused,
                   active_color, last_schedule_mtime, reload_lock, hist, week>>

\* no handler is between two of its steps
Quiet == \A t \in Threads : ~Busy(t)

\* the user saves or deletes schedule.json; a handler takes far less time
\* than a save, so the file changes between handlers
EditFile ==
    /\ pc["ui"] # "boot"
    /\ Quiet
    /\ mtime < MaxMtime
    /\ mtime' = mtime + 1
    /\ doc' \in (AppDocs \cup {AbsentDoc}) \ {doc}
    /\ UNCHANGED <<now, show_notifications, lead, blocks, paused,
                   active_color, jobs, last_schedule_mtime, reload_lock, pc,
                   loc, passes, hist, week>>

\* time passes, up to the next clock point or fire time; a due job is run
\* before the clock moves on, and the handlers that have started end before
\* the next fire time is reached
Advance ==
    /\ pc["ui"] # "boot"
    /\ Quiet
    /\ \E t \in ClockPoints \cup {j.run_at : j \in jobs} :
          /\ t > now
          /\ \A j \in jobs : j.run_at >= t
          /\ \A c \in ClockPoints : c > now => c >= t
          /\ now' = t
    /\ UNCHANGED <<doc, mtime, show_notifications, lead, blocks, paused,
                   active_color, jobs, last_schedule_mtime, reload_lock, pc,
                   loc, passes, hist, week>>

\* a step of one of the handlers thread t runs
ThreadStep(t) ==
    \/ t = "ui" /\ Boot
    \/ t = "tray" /\ (TogglePause \/ PauseRemoveAll \/ ManualReload)
    \/ t = "poller" /\ PollChanged
    \/ t = "sched" /\ (FireNotify \/ FireReseed)
    \/ t \in {"tray", "poller"}
         /\ (AcquireLock(t) \/ ReloadParse(t) \/ ReloadCheckPaused(t)
               \/ ReleaseLock(t))
    \/ t \in {"tray", "poller", "sched"}
         /\ (SnRemoveAll(t) \/ SnBegin(t) \/ SnAddBlockJob(t) \/ SnAddReseedJob(t))

\* every thread may move whenever it can: the steps of handlers on different
\* threads interleave
NextConc ==
    \/ \E t \in Threads : ThreadStep(t)
    \/ EditFile
    \/ Advance

SpecConc == InitApp /\ [][NextConc]_vars

\* a handler that has started runs to its end before anything else moves
NextSeq ==
    \/ \E t \in Threads : (\A u \in Threads \ {t} : ~Busy(u)) /\ ThreadStep(t)
    \/ EditFile
    \/ Advance

SpecSeq == InitApp /\ [][NextSeq]_vars

(***************************************************************************)
(* The application with the toast's "Snooze 5 min" button: SpecSnooze      *)
(***************************************************************************)
\* the job on_snooze registers: id "snooze:<title>:<run_at>", five minutes on
SnoozeJob(b, now_) ==
    [id     |-> <<"snooze", b.title, now_ + 5 * 60>>,
     run_at |-> now_ + 5 * 60,
     func   |-> "notify",
     block  |-> b,
     pass   |-> 0]

\* on_snooze(), run by the button of the toast on the Tk thread; an exception
\* of add_job is caught and printed
Snooze ==
    /\ pc["ui"] = "tick"
    /\ Quiet
    /\ hist.toast # NoBlock
    /\ passes < MaxPasses
    /\ passes' = passes + 1
    /\ LET j == SnoozeJob(hist.toast, now)
       IN  /\ jobs' = IF Conflicts(jobs, j) THEN jobs ELSE AddJob(jobs, j)
           /\ hist' = [hist EXCEPT !.op = "snooze", !.raised = Conflicts(jobs, j),
                                   !.pass = 0, !.toast = NoBlock]
    /\ UNCHANGED <<doc, mtime, now, show_notifications, lead, blocks, paused,
                   active_color, last_schedule_mtime, reload_lock, pc, loc,
                   week>>

NextSnooze == NextSeq \/ Snooze

SpecSnooze == InitApp /\ [][NextSnooze]_vars

(***************************************************************************)
(* The application paused while the clock moves on: SpecPause              *)
(***************************************************************************)
\* the instants a pause may last to: 08:55 and 09:25 of day 0
PausePoints == {8 * 3600 + 55 * 60, 9 * 3600 + 25 * 60}

\* lead times in seconds: none and ten minutes
PauseLeads == {0, 600}

InitPause ==
    /\ doc \in AppDocs
    /\ mtime = 1
    /\ now = AppStart
    /\ show_notifications \in BOOLEAN
    /\ lead \in PauseLeads
    /\ blocks = <<>>
    /\ paused = FALSE
    /\ active_color = DEFAULT_COLOR
    /\ jobs = {}
    /\ last_schedule_mtime = 0
    /\ reload_lock = "free"
    /\ pc = [t \in Threads |->
               CASE t = "ui" -> "boot" [] t = "sched" -> "idle" [] OTHER -> "off"]
    /\ loc = [t \in Threads |-> LocInit]
    /\ passes = 0
    /\ hist = HistInit
    /\ week = WeekInit

\* time passes while the application is paused, up to one of PausePoints
WaitPaused ==
    /\ pc["ui"] = "tick"
    /\ Quiet
    /\ paused
    /\ \E t \in PausePoints :
          /\ t > now
          /\ \A j \in jobs : j.run_at >= t
          /\ now' = t
    /\ hist' = [hist EXCEPT !.op = "wait", !.raised = FALSE, !.pass = 0,
                            !.toast = NoBlock,
                            !.since = IF hist.op = "wait" THEN @ ELSE now]
    /\ UNCHANGED <<doc, mtime, show_notifications, lead, blocks, paused,
                   active_color, jobs, last_schedule_mtime, reload_lock, pc,
                   loc, passes, week>>

NextPause == NextSeq \/ WaitPaused

SpecPause == InitPause /\ [][NextPause]_vars

(***************************************************************************)
(* The application fed broken or missing schedule files: SpecBroken        *)
(***************************************************************************)
\* file contents parse_blocks cannot resolve: malformed JSON, not an object,
\* no "schedules", "schedules" not an object, no "active_schedule", an active
\* name without a list, an empty active list, an active value that is no list,
\* an entry that is no object, and entries with a bad or missing time
BrokenDocs ==
    { MalformedDoc, LegacyDoc, NoSchedDoc, BadSchedDoc, NotListDoc,
      ProfileDoc(<<"weekday">>, 1, None, <<EStandup>>),
      ProfileDoc(<<"weekday">>, 1, "vacation", <<EStandup>>),
      ProfileDoc(<<"weekday">>, 1, "weekday", <<>>),
      ProfileDoc(<<"weekday">>, 1, "weekday", <<EStandup, ENotDict>>),
      ProfileDoc(<<"weekday">>, 1, "weekday", <<EStandup, EBadHour>>),
      ProfileDoc(<<"weekday">>, 1, "weekday", <<EAbcd, EDeep>>),
      ProfileDoc(<<"weekday">>, 1, "weekday", <<ENoColon>>),
      ProfileDoc(<<"weekday">>, 1, "weekday", <<EStandup, ENoTime>>) }

\* the user saves a broken schedule.json
SaveBroken ==
    /\ pc["ui"] # "boot"
    /\ Quiet
    /\ mtime < MaxMtime
    /\ mtime' = mtime + 1
    /\ doc' \in BrokenDocs
    /\ UNCHANGED <<now, show_notifications, lead, blocks, paused,
                   active_color, jobs, last_schedule_mtime, reload_lock, pc,
                   loc, passes, hist, week>>

\* watch_files(), one round that finds no file (FileNotFoundError: pass) or
\* the remembered modification time: nothing is done before the sleep
PollNothing ==
    /\ pc["poller"] = "idle"
    /\ Quiet
    /\ doc.kind = "absent" \/ mtime = last_schedule_mtime
    /\ hist' = [hist EXCEPT !.op = "poll", !.raised = FALSE, !.pass = 0,
                            !.toast = NoBlock]
    /\ UNCHANGED <<doc, mtime, now, show_notifications, lead, blocks, paused,
                   active_color, jobs, last_schedule_mtime, reload_lock, pc,
                   loc, passes, week>>

NextBroken == NextSeq \/ SaveBroken \/ PollNothing

SpecBroken == InitApp /\ [][NextBroken]_vars

(***************************************************************************)
(* The tick run on every schedule file: SpecTick                           *)
(***************************************************************************)
\* the schedule files the tick runs on: sound ones and broken ones
TickDocs == AppDocs \cup BrokenDocs

\* the application after run() loaded the file, its first tick pending
InitTick ==
    /\ doc \in TickDocs
    /\ mtime = 1
    /\ now \in LookupInstants
    /\ show_notifications = FALSE
    /\ lead = 0
    /\ blocks = ParseBlocks(doc)
    /\ paused = FALSE
    /\ active_color = DEFAULT_COLOR
    /\ jobs = {}
    /\ last_schedule_mtime = 0
    /\ reload_lock = "free"
    /\ pc = [t \in Threads |-> IF t = "ui" THEN "tick" ELSE "idle"]
    /\ loc = [t \in Threads |-> LocInit]
    /\ passes = 0
    /\ hist = [HistInit EXCEPT !.parsed = TRUE]
    /\ week = WeekInit

NextTick == TickUI

SpecTick == InitTick /\ [][NextTick]_vars

(***************************************************************************)
(* The interleaved application with every round of the poller: SpecPoll    *)
(***************************************************************************)
NextPoll == NextConc \/ PollNothing

SpecPoll == InitApp /\ [][NextPoll]_vars

(***************************************************************************)
(* Properties of the resolver                                              *)
(***************************************************************************)
\* s is written HH:MM with 00 <= HH <= 23 and 00 <= MM <= 59
ValidHHMM(s) ==
    /\ Len(s) = 5 /\ s[3] = ":"
    /\ \A i \in {1, 2, 4, 5} : IsDigit(s[i])
    /\ 10 * DigitVal(s[1]) + DigitVal(s[2]) <= 23
    /\ 10 * DigitVal(s[4]) + DigitVal(s[5]) <= 59

\* a profile of N >= 1 entries, each an object with a valid HH:MM time
ValidProfile(es) ==
    /\ Len(es) >= 1
    /\ \A i \in 1..Len(es) :
          es[i].isdict /\ es[i].tkind = "str" /\ ValidHHMM(es[i].time)

\* n blocks, each ending where the next starts, the last at "23:59"
Chained(bs, n) ==
    /\ Len(bs) = n
    /\ \A i \in 1..(n - 1) : bs[i].end = bs[i + 1].start
    /\ bs[n].end = EndOfDay

\* the document is a profile document whose active profile is a list
HasActiveProfile(d) ==
    /\ d.kind = "object" /\ d.schedKind = "dict"
    /\ Truthy(d.active) /\ HasKey(d.schedules, d.active)
    /\ Lookup(d.schedules, d.active).islist

\* the document is an object whose "schedules" is a mapping (or absent)
IsScheduleDoc(d) == d.kind = "object" /\ d.schedKind \in {"dict", "missing"}

\* C1: a profile of N >= 1 entries with valid HH:MM times, in any order,
\* resolves (parse_blocks for the active profile, _blocks_for_week for the
\* profile of a date) to exactly N blocks; the end of block i is the start of
\* block i+1 and the end of the last block is "23:59".
C1_ChainedBlocks ==
    /\ (hist.parsed /\ HasActiveProfile(doc)
          /\ ValidProfile(Lookup(doc.schedules, doc.active).val))
       => Chained(blocks, Len(Lookup(doc.schedules, doc.active).val))
    /\ (week.done /\ IsScheduleDoc(doc))
       => \A i \in 1..Len(week.days) :
             LET sel == entries_for_date(doc, week.days[i])
             IN  (sel.islist /\ ValidProfile(sel.val)
                    /\ (Len(week.days) = 1 \/ ~week.raised))
                 => /\ ~week.raised
                    /\ Chained(week.lists[i], Len(sel.val))

\* C1 witness: a three-entry profile given out of order was resolved by
\* both resolvers
C1_Witness ==
    /\ hist.parsed /\ week.done /\ ~week.raised /\ Len(week.days) = 1
    /\ HasActiveProfile(doc)
    /\ ValidProfile(Lookup(doc.schedules, doc.active).val)
    /\ Len(blocks) >= 3 /\ Len(week.lists[1]) >= 3
    /\ blocks[1].start # Lookup(doc.schedules, doc.active).val[1].time
    /\ week.lists[1][1].start # entries_for_date(doc, week.days[1]).val[1].time
    /\ blocks[1].end # EndOfDay

\* the colour the precedence rule gives an entry
ClaimedColor(e) ==
    IF e.color \notin {None, ""} THEN e.color
    ELSE IF e.category \in DOMAIN CAT_COLORS THEN CAT_COLORS[e.category]
    ELSE DEFAULT_COLOR

\* every entry has a block of its label and time with the claimed colour, and
\* every block comes from such an entry
ColoursFollow(es, bs) ==
    /\ \A i \in 1..Len(es) :
          \E j \in 1..Len(bs) :
             /\ bs[j].title = LabelOf(es[i]) /\ bs[j].start = es[i].time
             /\ bs[j].color = ClaimedColor(es[i])
    /\ \A j \in 1..Len(bs) :
          \E i \in 1..Len(es) :
             /\ bs[j].title = LabelOf(es[i]) /\ bs[j].start = es[i].time
             /\ bs[j].color = ClaimedColor(es[i])

\* C9: the colour of a resolved block is the entry's explicit colour when it
\* has one, else the category table's colour when the category is in the
\* table, else the default colour; the single entry 22:00 "Wind down" of
\* category "off" resolves to the block 22:00-23:59 of colour #64748b.
C9_ColourPrecedence ==
    /\ (hist.parsed /\ HasActiveProfile(doc)
          /\ ValidProfile(Lookup(doc.schedules, doc.active).val))
       => /\ ColoursFollow(Lookup(doc.schedules, doc.active).val, blocks)
          /\ Lookup(doc.schedules, doc.active).val = <<EWind>>
             => /\ Len(blocks) = 1
                /\ blocks[1].start = T2200 /\ blocks[1].end = EndOfDay
                /\ blocks[1].color = "#64748b"
    /\ (week.done /\ ~week.raised /\ IsScheduleDoc(doc))
       => \A i \in 1..Len(week.days) :
             LET sel == entries_for_date(doc, week.days[i])
             IN  ValidProfile(sel.val)
                 => /\ ColoursFollow(sel.val, week.lists[i])
                    /\ sel.val = <<EWind>>
                       => /\ Len(week.lists[i]) = 1
                          /\ week.lists[i][1].start = T2200
                          /\ week.lists[i][1].end = EndOfDay
                          /\ week.lists[i][1].color = "#64748b"

\* C9 witness: one resolved profile shows an explicit colour, a colour from
\* the category table and the default colour for an unlisted category
C9_Witness ==
    /\ hist.parsed /\ week.done /\ ~week.raised
    /\ \E i, j, k \in 1..Len(blocks) :
          /\ blocks[i].title = "Deep work" /\ blocks[i].color = "#ff0000"
          /\ blocks[j].title = "Wind down" /\ blocks[j].color = "#64748b"
          /\ blocks[k].title = "Untitled" /\ blocks[k].color = DEFAULT_COLOR
    /\ \E i, j, k \in 1..Len(week.lists[1]) :
          /\ week.lists[1][i].title = "Deep work"
          /\ week.lists[1][i].color = "#ff0000"
          /\ week.lists[1][j].title = "Wind down"
          /\ week.lists[1][j].color = "#64748b"
          /\ week.lists[1][k].title = "Untitled"
          /\ week.lists[1][k].color = DEFAULT_COLOR

\* positions of the keys that read lk when lower-cased
KeysNamed(schedules, lk) ==
    {i \in 1..Len(schedules) : Lower(schedules[i].key) = lk}

\* the bucket of a date: "weekend" on Saturday and Sunday, else "weekday"
Bucket(d) == IF Weekday(d) \in {5, 6} THEN "weekend" ELSE "weekday"

\* the entry lists the precedence rule allows for date d
ClaimedLists(data, d) ==
    LET S == WkSchedules(data)
    IN  IF KeysNamed(S, WkdayName(d)) # {}
        THEN {S[i].val : i \in KeysNamed(S, WkdayName(d))}
        ELSE IF KeysNamed(S, Bucket(d)) # {}
        THEN {S[i].val : i \in KeysNamed(S, Bucket(d))}
        ELSE IF \E i \in 1..Len(S) : S[i].key = data.active
        THEN {S[i].val : i \in {k \in 1..Len(S) : S[k].key = data.active}}
        ELSE {<<>>}

\* the blocks the per-day resolver builds from an entry list
ResolvedFrom(es, d, today) ==
    LET kept == WkItems(es)
    IN  WkExpand(WkSort([i \in 1..Len(kept) |-> WkItem(kept[i])]), d, today)

Contained(b) ==
    IF b.start_time <= b.end_time
    THEN b.start_time..(b.end_time - 1)
    ELSE (b.start_time..(DaySecs - 1)) \cup (0..(b.end_time - 1))

\* the least element of a non-empty set of numbers
Least(S) == CHOOSE x \in S : \A y \in S : x <= y

\* C2: the lookup yields none (the tick then shows the default colour) when
\* the list is empty or no block contains the instant, and otherwise the first
\* block in list order that contains it; a wrap-around block matches at its
\* start and just before its end, and no block matches at its own end.
C2_ActiveBlock ==
    hist.op = "tick"
    => LET t == TimeOfDay(now)
           M == {i \in 1..Len(blocks) : t \in Contained(blocks[i])}
       IN  /\ M = {}
              => hist.active = 0 /\ active_color = DEFAULT_COLOR
           /\ M # {}
              => /\ hist.active = Least(M)
                 /\ active_color =
                       IF blocks[Least(M)].color \in {None, ""}
                       THEN DEFAULT_COLOR ELSE blocks[Least(M)].color
           /\ \A i \in 1..Len(blocks) :
                 /\ (blocks[i].start_time > blocks[i].end_time
                       /\ t \in {blocks[i].start_time, blocks[i].end_time - 1})
                    => hist.active \in 1..i
                 /\ t = blocks[i].end_time => hist.active # i

\* C2 witness: the first block ends at the instant, the second one, a
\* wrap-around block, starts at it and is the one reported
C2_Witness ==
    /\ hist.op = "tick" /\ Len(blocks) = 2
    /\ blocks[2].start_time > blocks[2].end_time
    /\ TimeOfDay(now) = blocks[2].start_time
    /\ TimeOfDay(now) = blocks[1].end_time
    /\ hist.active = 2
    /\ active_color = blocks[2].color

(***************************************************************************)
(* Properties of one seeding pass                                          *)
(***************************************************************************)
BlockJobs == {j \in jobs : j.func = "notify"}

ReseedJobs == {j \in jobs : j.func = "reseed"}

\* the block's start on the calendar day of instant t
StartOn(b, day) == day * DaySecs + b.start_time

\* the later of two instants
Later(a, b) == IF a >= b THEN a ELSE b

\* C3 as stated: a block whose start today has passed gets a fire time on the
\* following calendar day, equal to tomorrow's start minus the lead; a block
\* whose start today is still to come gets a fire time on the current day.
C3_Original ==
    hist.op = "seed"
    => \A j \in BlockJobs :
          LET today == DateOf(now)
          IN  /\ StartOn(j.block, today) < now
                 => /\ DateOf(j.run_at) = today + 1
                    /\ j.run_at = StartOn(j.block, today + 1) - lead
              /\ StartOn(j.block, today) >= now
                 => DateOf(j.run_at) = today

\* C3 amended: for a block whose start today has passed, the fire time is the
\* later of now and tomorrow's start minus the lead, and it lies on the
\* following calendar day exactly when the lead does not exceed the start's
\* time of day; for a block whose start today is still to come, the fire time
\* lies on the current day.
C3_NextOccurrence ==
    hist.op = "seed"
    => \A j \in BlockJobs :
          LET today == DateOf(now)
          IN  /\ StartOn(j.block, today) < now
                 => /\ j.run_at = Later(now, StartOn(j.block, today + 1) - lead)
                    /\ (DateOf(j.run_at) = today + 1) <=> (lead <= j.block.start_time)
              /\ StartOn(j.block, today) >= now
                 => DateOf(j.run_at) = today

\* C3 witness: one pass registered a job for a start that had passed, whose
\* lead-adjusted fire time falls on the current day, and a job for a start
\* that lies exactly at now
C3_Witness ==
    /\ hist.op = "seed"
    /\ \E j, k \in BlockJobs :
          /\ StartOn(j.block, DateOf(now)) < now
          /\ j.run_at > now /\ DateOf(j.run_at) = DateOf(now)
          /\ StartOn(k.block, DateOf(now)) = now
          /\ DateOf(k.run_at) = DateOf(now)

\* the occurrence of the block's start that the pass aims at
ChosenStart(b) ==
    IF StartOn(b, DateOf(now)) >= now
    THEN StartOn(b, DateOf(now)) ELSE StartOn(b, DateOf(now) + 1)

\* C4: no registered fire time precedes now, and a block whose start minus
\* lead lies before now has its job registered at exactly now instead of
\* being skipped.
C4_ClampedNotSkipped ==
    (hist.op = "seed" /\ show_notifications)
    => /\ \A j \in BlockJobs : j.run_at >= now
       /\ \A i \in 1..Len(blocks) :
             ChosenStart(blocks[i]) - lead < now
             => \E j \in BlockJobs : j.block = blocks[i] /\ j.run_at = now

(***************************************************************************)
(* Properties of the running application                                   *)
(***************************************************************************)
\* the pending block jobs are exactly one per block of the list bs
OnePerBlock(bs) ==
    /\ Cardinality(BlockJobs) = Len(bs)
    /\ \A i \in 1..Len(bs) :
          Cardinality({j \in BlockJobs : j.block = bs[i]}) = 1

\* C5: after a pause followed by a resume with notifications enabled, the
\* pending jobs are exactly one block job per block of the current list plus
\* exactly one reseed job, and registering them raised no id conflict.
C5_ResumeRegenerates ==
    (hist.op = "resume" /\ Quiet /\ show_notifications)
    => /\ ~hist.raised
       /\ OnePerBlock(blocks)
       /\ Cardinality(ReseedJobs) = 1

\* C6: in a run whose operations do not overlap, no job is pending from the
\* moment a pause has completed until the resume, and a reload that ends
\* while paused has replaced the block list by the file's and registered no
\* job.
C6_PausedSilent ==
    /\ (paused /\ pc["tray"] # "tp_remove") => jobs = {}
    /\ \A t \in {"tray", "poller"} :
          (paused /\ pc[t] = "fr_unlock")
          => blocks = ParseBlocks(doc) /\ jobs = {}

\* C6 witness: the application was paused with notifications enabled, the
\* file was saved and a reload has ended: the new list is in place and no
\* job is pending
C6_Witness ==
    /\ paused /\ Quiet /\ show_notifications
    /\ hist.op = "reload" /\ mtime = 2 /\ last_schedule_mtime = 2
    /\ Len(blocks) = 2 /\ blocks = ParseBlocks(doc)
    /\ blocks[1].title = "Break"
    /\ jobs = {}

\* thread t is inside the with block of force_reload
InReload(t) ==
    \/ pc[t] \in {"fr_parse", "fr_paused", "fr_unlock"}
    \/ pc[t] \in {"sn_remove", "sn_begin", "sn_add"} /\ loc[t].ret = "fr_unlock"

\* mutual exclusion of force_reload: at most one thread is inside its body,
\* and the lock is held exactly by the thread inside
ReloadExclusive ==
    /\ ~(InReload("tray") /\ InReload("poller"))
    /\ \A t \in {"tray", "poller"} : InReload(t) <=> reload_lock = t

\* C7: at most one thread is inside the body of force_reload at any time, the
\* lock being held exactly by the thread inside; a thread that waits at the
\* lock finds it free or held by the other thread, which is then at a step of
\* the body (none of which waits for anything), so the reloads of the tray
\* thread and of the poller never overlap and neither deadlocks.
C7_OneReloadAtATime ==
    /\ ReloadExclusive
    /\ \A t \in {"tray", "poller"} :
          (pc[t] = "fr_lock" /\ reload_lock # "free")
          => /\ reload_lock \in {"tray", "poller"} \ {t}
             /\ InReload(reload_lock)
             /\ pc[reload_lock] = "sn_add"
                => loc[reload_lock].i \in 1..(Len(loc[reload_lock].iter) + 1)

\* C7 witness: the poller is inside force_reload, seeding, while the tray
\* thread waits at the lock
C7_Witness ==
    /\ pc["tray"] = "fr_lock"
    /\ pc["poller"] = "sn_add" /\ InReload("poller")
    /\ reload_lock = "poller"

\* the pending block jobs carry blocks of the list bs only, at most one each,
\* and a block without a pending job is one whose job, registered by a pass
\* that read the clock at instant at, has come due
FreshJobs(bs, at) ==
    /\ \A j \in BlockJobs : \E i \in 1..Len(bs) : j.block = bs[i]
    /\ \A i \in 1..Len(bs) :
          LET J == {j \in BlockJobs : j.block = bs[i]}
          IN  /\ Cardinality(J) <= 1
              /\ J = {} => RunAt(bs[i], at, lead) <= now

\* C8: when a reload that has seeded ends while not paused (notifications
\* enabled, its seeding having raised no id conflict, no other handler under
\* way any more), the pending block jobs are those of the newly resolved list,
\* one per block, with no duplicate and no job carrying a block of the previous
\* schedule, whatever the interleaving with the re-seed job or a resume was.
C8_ReloadLeavesFreshJobs ==
    [][\A t \in {"tray", "poller"} :
          (ReleaseLock(t) /\ ~paused /\ show_notifications /\ ~loc[t].raised
             /\ loc[t].i > 0 /\ \A u \in Threads \ {t} : ~Busy(u))
          => FreshJobs(blocks, loc[t].now)]_vars

(***************************************************************************)
(* The two resolvers compared                                              *)
(***************************************************************************)
\* a block of the per-day resolver without its is_today mark
AsBlock(w) ==
    [title |-> w.title, start |-> w.start, end |-> w.end,
     start_time |-> w.start_time, end_time |-> w.end_time, color |-> w.color]

\* every profile of the document is a list of entries with valid HH:MM times
AllProfilesValid(d) ==
    \A i \in 1..Len(d.schedules) :
       d.schedules[i].islist /\ ValidProfile(d.schedules[i].val)

\* C11: for every document (here: those whose profiles are all valid) and
\* date, the list parse_blocks returns (the one driving colour and
\* notifications) equals the list the per-day resolver builds for today under
\* the day-name > weekend/weekday > active_schedule precedence.
C11_SameBlocksForToday ==
    (hist.parsed /\ week.done /\ ~week.raised /\ IsScheduleDoc(doc)
       /\ AllProfilesValid(doc))
    => \A i \in 1..Len(week.days) :
          week.days[i] = DateOf(now)
          => blocks = [k \in 1..Len(week.lists[i]) |-> AsBlock(week.lists[i][k])]

(***************************************************************************)
(* Properties of reloads, the poller and the daily re-seed                 *)
(***************************************************************************)
\* thread t ends the handler it is running
Ends(t, op) == Busy(t) /\ pc'[t] = "idle" /\ loc[t].op = op

\* the poller has nothing to pick up: it saw the file's modification time,
\* or there is no file
Polled == last_schedule_mtime = mtime \/ doc.kind = "absent"

\* C12: when the daily re-seed job has run (the poller having nothing to pick
\* up), the block list is the one a reload at that moment resolves from the
\* file: the blocks are re-resolved before the new day's jobs are seeded.
C12_RolloverReResolves ==
    [][(Ends("sched", "reseed") /\ Polled) => blocks' = ParseBlocks(doc')]_vars

\* C13: a reload that finds a broken file (malformed, not an object, without
\* active_schedule or schedules, naming a missing or empty list, or holding a
\* bad time string) ends without an exception, leaves the block list empty,
\* hence the default colour and no pending block job, and the calling thread
\* goes back to waiting for its next event.
C13_BrokenFileEmptySchedule ==
    [][\A t \in {"tray", "poller"} :
          (ReleaseLock(t) /\ doc \in BrokenDocs)
          => /\ ParseBlocks(doc) = <<>>
             /\ blocks' = <<>>
             /\ ActiveColor(blocks', TimeOfDay(now)) = DEFAULT_COLOR
             /\ {j \in jobs' : j.func = "notify"} = {}
             /\ ~loc[t].raised
             /\ pc'[t] = "idle"]_vars

\* C13 witness: the poller has reloaded a file with the time "25:00" after a
\* good start with notifications enabled: no block is left, only the re-seed
\* job is pending and the poller is back in its loop
C13_Witness ==
    /\ hist.op = "reload" /\ ~hist.raised /\ Quiet
    /\ doc = ProfileDoc(<<"weekday">>, 1, "weekday", <<EStandup, EBadHour>>)
    /\ last_schedule_mtime = mtime
    /\ show_notifications /\ ~paused
    /\ blocks = <<>>
    /\ Cardinality(jobs) = 1 /\ \A j \in jobs : j.func = "reseed"
    /\ pc["poller"] = "idle"

\* C14: a poll that finds the schedule file absent leaves the application as
\* an empty schedule does: the block list is empty and no block job is
\* pending, also when the file was deleted after a successful load.
C14_AbsentFileIsEmptySchedule ==
    [][(PollNothing /\ doc.kind = "absent")
          => blocks' = <<>> /\ {j \in jobs' : j.func = "notify"} = {}]_vars

\* the pending snooze jobs
SnoozeJobs == {j \in jobs : j.id[1] = "snooze"}

\* C15: a snooze registers one job at now + 5 minutes carrying the block of
\* the toast under an id with the prefix "snooze", and a snooze job that is
\* not yet due is still pending after every step of a seeding pass (daily
\* re-seed, reload or resume).
C15_SnoozeSurvivesReseed ==
    [][/\ Snooze => \E j \in jobs' \ jobs :
                       /\ j.id[1] = "snooze" /\ j.run_at = now + 5 * 60
                       /\ j.block = hist.toast
       /\ \A t \in Threads :
             pc[t] \in {"sn_remove", "sn_begin", "sn_add"}
                => \A j \in SnoozeJobs : j.run_at > now => j \in jobs']_vars

(***************************************************************************)
(* C16: the choice between today and tomorrow                              *)
(***************************************************************************)
\* today_fire: the block's start today minus the lead
TodayFire(b, now_, lead_) == StartOn(b, DateOf(now_)) - lead_

\* now lies inside the lead window of the block's start today
InLeadWindow(b, now_, lead_) ==
    TodayFire(b, now_, lead_) < now_ /\ now_ <= StartOn(b, DateOf(now_))

\* the fire time chosen by comparing the lead-adjusted time with now
FireByLeadAdjusted(b, now_, lead_) ==
    IF TodayFire(b, now_, lead_) >= now_
    THEN TodayFire(b, now_, lead_)
    ELSE StartOn(b, DateOf(now_) + 1) - lead_

\* C16 as stated: every block job of a pass is registered at today_fire when
\* today_fire >= now and at tomorrow's start minus the lead otherwise, and a
\* pass that did not raise registered such a job for every block.
C16_Original ==
    (hist.op = "seed" /\ show_notifications) =>
        /\ \A j \in BlockJobs :
              j.run_at = FireByLeadAdjusted(j.block, now, lead)
        /\ ~hist.raised =>
              \A i \in 1..Len(blocks) : \E j \in BlockJobs : j.block = blocks[i]

\* C16: a pass compares the start itself with now, then applies the lead and
\* the clamp: a block job is registered at today_fire when today_fire >= now,
\* at now when now lies inside the lead window, and at the later of now and
\* tomorrow's start minus the lead when today's start has passed; a pass that
\* did not raise registered such a job for every block.
C16_TodayOrTomorrow ==
    (hist.op = "seed" /\ show_notifications) =>
        /\ \A j \in BlockJobs :
              LET b == j.block
                  tomorrow_fire == StartOn(b, DateOf(now) + 1) - lead
              IN  /\ TodayFire(b, now, lead) >= now
                        => j.run_at = TodayFire(b, now, lead)
                  /\ InLeadWindow(b, now, lead) => j.run_at = now
                  /\ StartOn(b, DateOf(now)) < now
                        => j.run_at = IF tomorrow_fire < now THEN now
                                      ELSE tomorrow_fire
        /\ ~hist.raised =>
              \A i \in 1..Len(blocks) : \E j \in BlockJobs : j.block = blocks[i]

\* a pass registered a job for a block whose lead window holds now, next to
\* one for a block whose lead-adjusted time is still ahead
C16_Witness ==
    /\ hist.op = "seed"
    /\ show_notifications
    /\ lead > 0
    /\ \E j \in BlockJobs : InLeadWindow(j.block, now, lead)
                               /\ StartOn(j.block, DateOf(now)) > now
    /\ \E j \in BlockJobs : TodayFire(j.block, now, lead) > now

(***************************************************************************)
(* C17: the daily re-seed job                                              *)
(***************************************************************************)
\* C17: whenever the application runs unpaused with notifications enabled
\* and no handler is at work, exactly one re-seed job is pending, and it is
\* due at 00:05 of the day after the pass that registered it (the coming
\* 00:05, or now when it has just come due), whatever the block list.
C17_OneReseedJob ==
    (pc["ui"] = "tick" /\ Quiet /\ ~paused /\ show_notifications) =>
        /\ Cardinality(ReseedJobs) = 1
        /\ \A j \in ReseedJobs :
              \/ j.run_at = MidnightPlus(now)
              \/ j.run_at = now /\ TimeOfDay(now) = 5 * 60

(***************************************************************************)
(* C18: fire times that elapse during a pause                              *)
(***************************************************************************)
\* the fire time of today's occurrence of b elapsed while the application
\* was paused: after the clock started to move under the pause, before now
ElapsedWhilePaused(b) ==
    /\ hist.since > 0
    /\ hist.since < TodayFire(b, now, lead)
    /\ TodayFire(b, now, lead) < now

\* the jobs the step registers or leaves pending for block b
JobsOf(js, b) == {j \in js : j.func = "notify" /\ j.block = b}

\* C18 as stated: a resume that comes after a block's fire time elapsed
\* during the pause leaves, for that block, only a job at the following
\* day's start minus the lead, so that no notification is shown for the
\* occurrence.
C18_Original ==
    [][(Ends("tray", "resume") /\ show_notifications /\ ~loc'["tray"].raised) =>
          \A i \in 1..Len(blocks) :
             ElapsedWhilePaused(blocks[i]) =>
                /\ JobsOf(jobs', blocks[i]) # {}
                /\ \A j \in JobsOf(jobs', blocks[i]) :
                      j.run_at = StartOn(blocks[i], DateOf(now) + 1) - lead]_vars

\* C18: a resume that comes after a block's fire time elapsed during the
\* pause misses the occurrence only when the block's start has passed as
\* well: then the block's job is registered at the later of now and the
\* following day's start minus the lead. A resume inside the lead window
\* registers the job at the instant of the resume, so that the notification
\* of the occurrence is shown at once. With no lead the occurrence is
\* always missed.
C18_MissedAfterStart ==
    [][(Ends("tray", "resume") /\ show_notifications /\ ~loc'["tray"].raised) =>
          \A i \in 1..Len(blocks) :
             LET b == blocks[i]
                 tomorrow_fire == StartOn(b, DateOf(now) + 1) - lead
             IN  ElapsedWhilePaused(b) =>
                   /\ JobsOf(jobs', b) # {}
                   /\ \A j \in JobsOf(jobs', b) :
                         /\ StartOn(b, DateOf(now)) < now
                               => j.run_at = Later(now, tomorrow_fire)
                         /\ InLeadWindow(b, now, lead) => j.run_at = now
                         /\ lead = 0 => j.run_at = tomorrow_fire]_vars

\* a resume is about to end after it registered, for one block whose fire
\* time elapsed during the pause, a job at the instant of the resume and,
\* for another, a job for the following day
C18_Witness ==
    /\ pc["tray"] = "sn_add"
    /\ loc["tray"].op = "resume"
    /\ loc["tray"].i > Len(loc["tray"].iter)
    /\ \E i \in 1..Len(blocks) :
          /\ ElapsedWhilePaused(blocks[i])
          /\ InLeadWindow(blocks[i], now, lead)
          /\ \E j \in JobsOf(jobs, blocks[i]) : j.run_at = now
    /\ \E i \in 1..Len(blocks) :
          /\ ElapsedWhilePaused(blocks[i])
          /\ StartOn(blocks[i], DateOf(now)) < now
          /\ \E j \in JobsOf(jobs, blocks[i]) : DateOf(j.run_at) = DateOf(now) + 1

(***************************************************************************)
(* C19: hot reload by polling                                              *)
(***************************************************************************)
\* the pending jobs are those of seeding the list bs with the clock read at
\* instant at: the block jobs of bs and the re-seed for the following day
SeededFrom(bs, at) ==
    /\ FreshJobs(bs, at)
    /\ ReseedJobs # {}
    /\ \A j \in ReseedJobs : j.run_at = MidnightPlus(at)

\* C19: a round of the poller that finds the modification time it remembers
\* starts no reload; a round that finds another one remembers it and starts
\* exactly one reload; and when that reload ends with the file unchanged since
\* and no other handler under way, the block list is the resolution of the
\* file's content and, when unpaused with notifications enabled (the reload
\* having seeded), the pending jobs are those seeded from that list.
C19_PollReloads ==
    [][/\ (PollNothing /\ doc.kind # "absent") =>
             /\ blocks' = blocks /\ jobs' = jobs /\ passes' = passes
             /\ pc'["poller"] = "idle"
       /\ PollChanged =>
             /\ pc'["poller"] = "fr_lock" /\ passes' = passes + 1
             /\ last_schedule_mtime' = mtime /\ blocks' = blocks
       /\ (ReleaseLock("poller") /\ last_schedule_mtime = mtime
             /\ doc.kind # "absent"
             /\ \A u \in Threads \ {"poller"} : ~Busy(u)) =>
             /\ blocks' = ParseBlocks(doc)
             /\ (~paused /\ show_notifications /\ loc["poller"].i > 0)
                   => SeededFrom(ParseBlocks(doc), loc["poller"].now)]_vars

(***************************************************************************)
(* C20: no occurrence is lost                                              *)
(***************************************************************************)
\* the fire time (start minus lead) of the first occurrence of b that is
\* still to come
ComingFire(b) ==
    IF TodayFire(b, now, lead) > now
    THEN TodayFire(b, now, lead)
    ELSE StartOn(b, DateOf(now) + 1) - lead

\* the coming occurrence of block b is provided for: a job of b is pending at
\* the occurrence's fire time, or a re-seed job is pending that runs before
\* that fire time and will register it
Provided(b) ==
    LET f == ComingFire(b)
    IN  \/ \E j \in JobsOf(jobs, b) : j.run_at = f
        \/ \E j \in ReseedJobs : j.run_at <= f

\* C20: whenever the application runs unpaused with notifications enabled and
\* no handler is at work, the coming occurrence of every block of the current
\* list is provided for, on the day of the seeding and on every later day,
\* after every daily re-seed and every reload: no occurrence is lost.
C20_NoOccurrenceLost ==
    (pc["ui"] = "tick" /\ Quiet /\ ~paused /\ show_notifications) =>
        \A i \in 1..Len(blocks) : Provided(blocks[i])

(***************************************************************************)
(* C21: entries with a missing or invalid time                             *)
(***************************************************************************)
\* the entry is an object with a valid HH:MM time
ValidEntry(e) == e.isdict /\ e.tkind = "str" /\ ValidHHMM(e.time)

\* the valid entries of a profile, in input order
ValidOf(es) == SelectSeq(es, ValidEntry)

\* the blocks built from the valid entries alone, sorted by minutes since
\* midnight with ties in input order
FromValid(es) ==
    LET v == ValidOf(es)
    IN  PbExpand(PbSort([i \in 1..Len(v) |-> PbNorm(v[i])]))

\* every entry is an object and at least one has a missing or invalid time
SomeBadTime(es) ==
    /\ \A i \in 1..Len(es) : es[i].isdict
    /\ ValidOf(es) # es

\* C21: for a profile of objects with at least one entry whose time is
\* missing or invalid, parse_blocks and _blocks_for_week both return exactly
\* the blocks built from the valid entries, sorted, ties in input order.
C21_InvalidEntriesFiltered ==
    /\ (hist.parsed /\ HasActiveProfile(doc) /\ SomeBadTime(PbEntries(doc)))
       => blocks = FromValid(PbEntries(doc))
    /\ (week.done /\ IsScheduleDoc(doc))
       => \A i \in 1..Len(week.days) :
             LET sel == entries_for_date(doc, week.days[i])
             IN  (sel.islist /\ SomeBadTime(sel.val))
                 => /\ ~week.raised
                    /\ [k \in 1..Len(week.lists[i]) |-> AsBlock(week.lists[i][k])]
                          = FromValid(sel.val)

(***************************************************************************)
(* C22: the tick and schedule-format errors                                *)
(***************************************************************************)
\* C22: after every run of the tick, whatever the schedule file holds, the
\* timer is armed again: no error met while the active block is recomputed
\* and the week view redrawn leaves the tick, and the active colour is the
\* one of the block that contains now.
C22_TickNeverStops ==
    hist.op = "tick" =>
        /\ pc["ui"] = "tick"
        /\ ~week.raised
        /\ active_color = ActiveColor(blocks, TimeOfDay(now))

(***************************************************************************)
(* C23: no occurrence is notified twice                                    *)
(***************************************************************************)
\* C23: once the notification of a block's occurrence of today has been shown
\* (the toast is the last thing that happened, and now lies between the
\* occurrence's fire time and the block's start), a seeding pass (reload,
\* resume or re-seed) registers no further job of that block that is due by
\* that start: the next job of the block belongs to a later occurrence.
C23_NotifiedOnce ==
    [][(/\ hist.op = "toast"
        /\ hist.toast # NoBlock
        /\ TodayFire(hist.toast, now, lead) <= now
        /\ now <= StartOn(hist.toast, DateOf(now)))
       => \A j \in JobsOf(jobs', hist.toast) \ jobs :
             j.run_at > StartOn(hist.toast, DateOf(now))]_vars

(***************************************************************************)
(* C24: job ids within one seeding pass                                    *)
(***************************************************************************)
\* C24: within one seeding pass the ids of the jobs of the blocks of the list
\* are pairwise distinct, so that the pass ends without an id conflict, with
\* one pending job per block and the re-seed job.
C24_DistinctJobIds ==
    (hist.op = "seed" /\ show_notifications)
    => /\ \A i, k \in 1..Len(blocks) :
             i # k => BlockJob(blocks[i], now, lead, passes).id
                      # BlockJob(blocks[k], now, lead, passes).id
       /\ ~hist.raised
       /\ Cardinality(BlockJobs) = Len(blocks)
       /\ ReseedJobs # {}

(***************************************************************************)
(* C25: the thread that touches the windows: SpecWindows                   *)
(* hist.widget is the thread that last created, changed or destroyed a     *)
(* window widget ("none" before the first such call).                      *)
(***************************************************************************)
\* _open_schedule_panel(), called by the Control-w binding on the Tk thread
\* and by the "Open Schedule" menu item on the tray thread: it raises the
\* panel or builds the Toplevel itself
OpenSchedulePanel(t) ==
    /\ t \in {"ui", "tray"}
    /\ pc["ui"] = "tick"
    /\ Quiet
    /\ pc[t] \in {"tick", "idle"}
    /\ hist' = [hist EXCEPT !.op = "panel", !.raised = FALSE, !.pass = 0,
                            !.toast = NoBlock, !.widget = t]
    /\ UNCHANGED <<doc, mtime, now, show_notifications, lead, blocks, paused,
                   active_color, jobs, last_schedule_mtime, reload_lock, pc,
                   loc, passes, week>>

\* quit(), the "Quit" menu item on the tray thread: icon.stop(),
\* scheduler.shutdown(wait=False), then self.tk_root.destroy() itself
QuitApp ==
    /\ pc["ui"] = "tick"
    /\ Quiet
    /\ pc["tray"] = "idle"
    /\ jobs' = {}
    /\ pc' = [t \in Threads |-> IF t = "ui" THEN "dead" ELSE "off"]
    /\ hist' = [hist EXCEPT !.op = "quit", !.raised = FALSE, !.pass = 0,
                            !.toast = NoBlock, !.widget = "tray"]
    /\ UNCHANGED <<doc, mtime, now, show_notifications, lead, blocks, paused,
                   active_color, last_schedule_mtime, reload_lock, loc,
                   passes, week>>

\* the callback _notify_block handed to the Tk loop with after(0, ...):
\* _show_toast_ui runs on the Tk thread and the toast window is built there
ShowToastUI ==
    /\ pc["ui"] = "tick"
    /\ hist.op = "toast"
    /\ hist' = [hist EXCEPT !.op = "window", !.widget = "ui"]
    /\ UNCHANGED <<doc, mtime, now, show_notifications, lead, blocks, paused,
                   active_color, jobs, last_schedule_mtime, reload_lock, pc,
                   loc, passes, week>>

NextWindows ==
    \/ NextSeq
    \/ \E t \in {"ui", "tray"} : OpenSchedulePanel(t)
    \/ QuitApp
    \/ ShowToastUI

SpecWindows == InitApp /\ [][NextWindows]_vars

\* C25: every creation, change or destruction of a window widget is made by
\* the Tk thread: no tray, poller or scheduler thread touches a widget.
C25_WidgetsOnUiThread == hist.widget \in {"none", "ui"}

(***************************************************************************)
(* C26: pause against a reload or re-seed in progress                      *)
(***************************************************************************)
\* C26: in every interleaving of the tray, poller and scheduler threads,
\* whenever no operation is in progress and the paused flag is set, no job
\* is pending: neither a block job nor a re-seed job.
C26_PausedMeansNoJobs ==
    (paused /\ Quiet) => jobs = {}

(***************************************************************************)
(* C27: the resolved blocks partition the day from the first start on      *)
(***************************************************************************)
\* the instants a block list is probed at: midnight, the last second of the
\* day, 23:59 and its neighbours, and every start and end with its
\* neighbours (between two of these, containment cannot change)
Probes(bs) ==
    (LookupInstants
       \cup UNION {{bs[i].start_time - 1, bs[i].start_time,
                    bs[i].start_time + 1, bs[i].end_time - 1,
                    bs[i].end_time, bs[i].end_time + 1} : i \in 1..Len(bs)})
    \cap (0..(DaySecs - 1))

\* the blocks of bs that _time_in_range finds the instant t in
Holding(bs, t) ==
    {i \in 1..Len(bs) : TimeInRange(bs[i].start_time, bs[i].end_time, t)}

\* no block wraps midnight, the starts ascend, and the blocks partition
\* [first start, 23:59)
PartitionsDay(bs) ==
    /\ \A i \in 1..Len(bs) : bs[i].start_time <= bs[i].end_time
    /\ \A i \in 1..(Len(bs) - 1) : bs[i].start_time <= bs[i + 1].start_time
    /\ \A t \in Probes(bs) :
          /\ Cardinality(Holding(bs, t)) <= 1
          /\ (bs[1].start_time <= t /\ t < TimeOf(EndOfDay))
             => Cardinality(Holding(bs, t)) = 1
          /\ (t < bs[1].start_time \/ t >= TimeOf(EndOfDay))
             => Holding(bs, t) = {}

\* C27: a block list resolved from entries with valid times (by parse_blocks
\* for the active profile, by the per-day resolver for a date) has
\* start_time <= end_time in every block and ascending starts; every instant
\* from the first start up to but excluding 23:59 lies in exactly one block,
\* every other instant in none.
C27_BlocksPartitionDay ==
    /\ (hist.parsed /\ HasActiveProfile(doc)
          /\ ValidProfile(Lookup(doc.schedules, doc.active).val))
       => PartitionsDay(blocks)
    /\ (week.done /\ ~week.raised /\ IsScheduleDoc(doc))
       => \A i \in 1..Len(week.days) :
             LET sel == entries_for_date(doc, week.days[i])
             IN  (sel.islist /\ ValidProfile(sel.val))
                 => PartitionsDay(week.lists[i])

\* C27 witness: parse_blocks resolved a three-entry profile given out of
\* order, two of whose entries share a time (an empty block) and whose first
\* start lies after midnight.
C27_Witness ==
    /\ hist.parsed /\ HasActiveProfile(doc)
    /\ ValidProfile(Lookup(doc.schedules, doc.active).val)
    /\ Len(blocks) = 3
    /\ blocks[1].start # Lookup(doc.schedules, doc.active).val[1].time
    /\ \E i \in 1..3 : blocks[i].start_time = blocks[i].end_time
    /\ blocks[1].start_time > 0
    /\ blocks[1].start_time < blocks[3].start_time

(***************************************************************************)
(* C28: the master switch and the paused check of a firing job             *)
(***************************************************************************)
\* C28: with notifications switched off in the configuration no job is ever
\* pending, whatever reloads, pauses and resumes have run or are running, and
\* no block job ever fires; and a block job that fires while the paused flag
\* is set puts no toast on screen.
C28_SwitchedOffOrPausedSilent ==
    /\ [](~show_notifications
            => jobs = {} /\ hist.op \notin {"toast", "muted"})
    /\ [][(/\ paused
           /\ pc' = pc
           /\ \E j \in jobs \ jobs' : j.func = "notify" /\ j.run_at <= now)
          => hist'.toast = NoBlock]_vars

\* C28 witness: with notifications off the application has started, was
\* paused and resumed, and has then reloaded the schedule
C28_Witness ==
    /\ ~show_notifications
    /\ ~paused
    /\ hist.op = "reload"
    /\ passes = MaxPasses
    /\ Quiet
    /\ blocks # <<>>
    /\ jobs = {}

\* a block job has fired while the paused flag was set
C28_FiredWhilePaused == hist.op = "muted" /\ paused /\ hist.toast = NoBlock

====
